---- MODULE Spec2Model ----
(***************************************************************************)
(* Model of src/ingestion/generate_revops_sources.py: main() loads the     *)
(* orders table, normalises the purchase timestamps, aggregates distinct   *)
(* purchases per calendar day and, for every day and channel, synthesises  *)
(* one funnel row and one spend row, then writes both tables.              *)
(*                                                                         *)
(* Numbers.  Reals are kept as exact integers in a fixed unit:             *)
(*   lead_rate, close_rate and the two funnel noise factors: thousandths;  *)
(*   cpc and the spend noise factor: tenths;  the Email draw: dollars;     *)
(*   weekend_factor: hundredths (85 or 100);                               *)
(*   spend (the local): 1/10000 dollar;  spend (the row): cents.           *)
(* Timestamps are hours since 2018-01-01T00:00 (a Monday); a date is the   *)
(* number of days since 2018-01-01.                                        *)
(***************************************************************************)
EXTENDS Integers, Sequences, FiniteSets

VARIABLES
    file,             \* the input file: exists, columns, rows (raw text)
    rng,              \* np.random global generator: [tape, pos]
    pc,               \* position in main()
    error,            \* the exception that ended the run, or "none"
    orders,           \* the DataFrame `orders`
    min_date, max_date, all_dates,
    purchases_daily,  \* sequence of [date, total_purchases]
    dayIdx, chIdx,    \* positions of the two nested loops
    day,              \* locals of the outer loop body (lines 57-73)
    loc,              \* locals of the inner loop body (lines 76-115)
    funnel_rows, spend_rows,
    out_funnel, out_spend   \* the two output files

vars == <<file, rng, pc, error, orders, min_date, max_date, all_dates,
          purchases_daily, dayIdx, chIdx, day, loc, funnel_rows, spend_rows,
          out_funnel, out_spend>>

----------------------------------------------------------------------------
(* Bounds of the model *)

MaxRows == 2     \* rows of the input table (Spec)
MaxId == 2       \* distinct order_id values (Spec)
MaxSpan == 3     \* calendar days the timestamps are drawn from
FirstDay == 88   \* first of those days: 88 = Fri 2018-03-30
MaxTotal == 10   \* total_purchases of the day (SpecDay)

Days == FirstDay .. (FirstDay + MaxSpan - 1)
OrderIds == 1 .. MaxId
Hours == {13}

\* random_sample() values k/2, k in Samples: low end, middle, high end
Samples == {0, 1, 2}
SampleDen == Cardinality(Samples) - 1

----------------------------------------------------------------------------
(* Arithmetic helpers *)

Max(a, b) == IF a >= b THEN a ELSE b

\* np.ceil of n/d for d > 0 (\div is floor division)
CeilDiv(n, d) == -((-n) \div d)

\* int(x): truncation toward zero of n/d, d > 0
TruncDiv(n, d) == IF n >= 0 THEN n \div d ELSE -((-n) \div d)

\* Python round(): the integer nearest n/d, ties to the even one
PyRound(n, d) ==
    LET q == n \div d
        r == n % d
    IN  IF 2 * r < d THEN q
        ELSE IF 2 * r > d THEN q + 1
        ELSE IF q % 2 = 0 THEN q ELSE q + 1

----------------------------------------------------------------------------
(* Calendar of 2018 *)

DaysInMonth(m) ==
    IF m = 2 THEN 28 ELSE IF m \in {4, 6, 9, 11} THEN 30 ELSE 31

RECURSIVE DaysBefore(_)
DaysBefore(m) == IF m = 1 THEN 0 ELSE DaysBefore(m - 1) + DaysInMonth(m - 1)

\* day number of 2018-m-d
DayNumber(m, d) == DaysBefore(m) + d - 1

RECURSIVE MonthOf(_, _)
MonthOf(n, m) ==
    IF n < DaysBefore(m) + DaysInMonth(m) THEN m ELSE MonthOf(n, m + 1)

\* date.isoformat(): the YYYY-MM-DD of day number n
IsoFormat(n) ==
    LET m == MonthOf(n, 1)
    IN  [y |-> 2018, m |-> m, d |-> n - DaysBefore(m) + 1]

\* the text of a timestamp, as read_csv leaves it
Stamp(n, h) ==
    LET iso == IsoFormat(n) IN [y |-> iso.y, m |-> iso.m, d |-> iso.d, h |-> h]

BadStamp == [y |-> 2018, m |-> 2, d |-> 30, h |-> 13]
NoStamp == [y |-> 0, m |-> 0, d |-> 0, h |-> 0]
RawStamps == {Stamp(n, h) : n \in Days, h \in Hours} \cup {BadStamp}

NaT == -1

\* pd.to_datetime(errors="coerce") of one value
ToDatetime(raw) ==
    IF /\ raw.y = 2018
       /\ raw.m \in 1..12
       /\ raw.d \in 1..DaysInMonth(raw.m)
       /\ raw.h \in 0..23
    THEN DayNumber(raw.m, raw.d) * 24 + raw.h
    ELSE NaT

DateOf(ts) == ts \div 24          \* .dt.date
FloorD(ts) == ts - (ts % 24)      \* .dt.floor("D")
Weekday(ts) == (ts \div 24) % 7   \* Timestamp.weekday(), Monday = 0

----------------------------------------------------------------------------
(* The input file and the random generator *)

IdCol == "order_id"
TsCol == "order_purchase_timestamp"
Cols == {IdCol, TsCol}

\* a column the file lacks holds a placeholder that the code never reads
RowsFor(cols) ==
    {[order_id |-> i, order_purchase_timestamp |-> s] :
        i \in (IF IdCol \in cols THEN OrderIds ELSE {0}),
        s \in (IF TsCol \in cols THEN RawStamps ELSE {NoStamp})}

Tables(cols) == UNION {[1..n -> RowsFor(cols)] : n \in 0..MaxRows}

Files ==
    {[exists |-> FALSE, columns |-> {}, rows |-> <<>>]}
    \cup UNION {{[exists |-> TRUE, columns |-> c, rows |-> r] : r \in Tables(c)} :
                  c \in SUBSET Cols}

\* The generator's stream after np.random.seed: a tape of samples that the
\* draws read in order (six draws at most per row, so period 6).
\* Spec runs on the flat streams; SpecDay on every stream of extreme samples
\* as well.
FlatTapes == {[i \in 1..6 |-> k] : k \in Samples}
Tapes == [1..6 -> {0, SampleDen}] \cup FlatTapes

\* the i-th next sample of the stream (i = 0 is the next one)
Sample(g, i) == g.tape[((g.pos + i) % Len(g.tape)) + 1]
Advance(g, n) == [g EXCEPT !.pos = (g.pos + n) % Len(g.tape)]

\* np.random.uniform(lo, hi) for the sample k/SampleDen
Uniform(lo, hi, k) == lo + ((hi - lo) * k) \div SampleDen

----------------------------------------------------------------------------
(* Channels and the purchase allocation (lines 45-51, 63-73) *)

CHANNELS == <<"Paid Search", "Paid Social", "Email", "Affiliate", "Organic">>

\* channel_weights, in hundredths; keys in insertion order are CHANNELS
channel_weights(ch) ==
    CASE ch = "Paid Search" -> 28
      [] ch = "Paid Social" -> 22
      [] ch = "Email" -> 15
      [] ch = "Affiliate" -> 10
      [] ch = "Organic" -> 25

WeightKeys == CHANNELS

Put(f, k, v) == [x \in DOMAIN f \cup {k} |-> IF x = k THEN v ELSE f[x]]
Get(f, k, default) == IF k \in DOMAIN f THEN f[k] ELSE default
EmptyDict == [x \in {} |-> 0]

AllocValCeil(total_purchases, ch) == CeilDiv(total_purchases * channel_weights(ch), 100)

\* val = int(round(total_purchases * channel_weights[ch]))
AllocVal(total_purchases, ch) == PyRound(total_purchases * channel_weights(ch), 100)

DeductForgotten(remaining, val) == remaining

\* remaining -= val
Deduct(remaining, val) == remaining - val

\* the loop of lines 67-73 from position i on
RECURSIVE AllocLoop(_, _, _, _)
AllocLoop(i, total_purchases, allocations, remaining) ==
    IF i > Len(WeightKeys)
    THEN [allocations |-> allocations, remaining |-> remaining]
    ELSE LET ch == WeightKeys[i] IN
         IF i < Len(WeightKeys)
         THEN LET val == AllocVal(total_purchases, ch)
              IN  AllocLoop(i + 1, total_purchases, Put(allocations, ch, val),
                            Deduct(remaining, val))
         ELSE AllocLoop(i + 1, total_purchases,
                        Put(allocations, ch, Max(0, remaining)), remaining)

Allocate(total_purchases) == AllocLoop(1, total_purchases, EmptyDict, total_purchases)

WeekendFactorInverted(weekday) == IF weekday >= 5 THEN 100 ELSE 85

\* weekend_factor, in hundredths
WeekendFactor(weekday) == IF weekday >= 5 THEN 85 ELSE 100

----------------------------------------------------------------------------
(* Synthesis of one (day, channel) row (lines 76-123) *)

PaidChannels == {"Paid Search", "Paid Social", "Affiliate"}

\* max(rate, 0.01) in thousandths
FloorRate(rate) == Max(rate, 10)

LeadsOfTimesRate(purchases, close_rate, noise) ==
    CeilDiv(purchases * FloorRate(close_rate) * noise, 1000 * 1000)

LeadsOfAtLeastOne(purchases, close_rate, noise) ==
    Max(1, CeilDiv(purchases * noise, FloorRate(close_rate)))

\* int(np.ceil((purchases / max(close_rate, 0.01)) * noise))
LeadsOf(purchases, close_rate, noise) == CeilDiv(purchases * noise, FloorRate(close_rate))

\* int(np.ceil((leads / max(lead_rate, 0.01)) * noise))
SessionsOf(leads, lead_rate, noise) == CeilDiv(leads * noise, FloorRate(lead_rate))

\* int(x * weekend_factor)
Dampen(x, weekend_factor) == TruncDiv(x * weekend_factor, 100)

\* lines 107-113: spend before the weekend factor, in cents
SpendOf(ch, sessions, cpc, noise, email) ==
    IF ch \in PaidChannels THEN sessions * cpc * noise
    ELSE IF ch = "Email" THEN email * 100
    ELSE 0

\* spend = spend * weekend_factor, in 1/10000 dollar
SpendFactor(spend, weekend_factor) == spend * weekend_factor

\* the draws of one iteration, read from generator g
DrawsOf(ch, g, old) ==
    [lead_rate |-> Uniform(20, 80, Sample(g, 0)),
     close_rate |-> Uniform(50, 180, Sample(g, 1)),
     noise_leads |-> Uniform(950, 1100, Sample(g, 2)),
     noise_sessions |-> Uniform(950, 1150, Sample(g, 3)),
     cpc |-> IF ch \in PaidChannels THEN Uniform(5, 25, Sample(g, 4)) ELSE old.cpc,
     noise_spend |-> IF ch \in PaidChannels THEN Uniform(6, 12, Sample(g, 5))
                     ELSE old.noise_spend,
     email |-> IF ch = "Email" THEN Uniform(20, 120, Sample(g, 4)) ELSE old.email]

DrawCount(ch) == IF ch \in PaidChannels THEN 6 ELSE IF ch = "Email" THEN 5 ELSE 4

\* lines 81-95 and 107-115: the locals after the iteration, for draws dr
Synth(ch, purchases, weekend_factor, dr) ==
    LET leads0 == LeadsOf(purchases, dr.close_rate, dr.noise_leads)
        sessions0 == SessionsOf(leads0, dr.lead_rate, dr.noise_sessions)
        sessions == Dampen(sessions0, weekend_factor)
        leads == Dampen(leads0, weekend_factor)
        spend == SpendOf(ch, sessions, dr.cpc, dr.noise_spend, dr.email)
    IN  [purchases |-> purchases, leads |-> leads, sessions |-> sessions,
         spend |-> SpendFactor(spend, weekend_factor)]

\* lines 97-105
FunnelRow(d, ch, sessions, leads, purchases) ==
    [funnel_date |-> IsoFormat(DateOf(d)), channel |-> ch,
     sessions |-> Max(sessions, 0), leads |-> Max(leads, 0),
     purchases |-> Max(purchases, 0)]

SpendRowSigned(d, ch, spend) ==
    [spend_date |-> IsoFormat(DateOf(d)), channel |-> ch,
     spend |-> -PyRound(Max(spend, 0), 100)]

\* lines 117-123: round(float(max(spend, 0.0)), 2), in cents
SpendRow(d, ch, spend) ==
    [spend_date |-> IsoFormat(DateOf(d)), channel |-> ch,
     spend |-> PyRound(Max(spend, 0), 100)]

----------------------------------------------------------------------------
(* Table operations (lines 27-43) *)

\* to_datetime(errors="coerce") then dropna(subset=[TsCol])
Normalize(rows) ==
    LET parsed == [i \in DOMAIN rows |->
                     [order_id |-> rows[i].order_id,
                      order_purchase_timestamp |->
                          ToDatetime(rows[i].order_purchase_timestamp)]]
    IN  SelectSeq(parsed, LAMBDA r : r.order_purchase_timestamp # NaT)

Dates(df) == {DateOf(df[i].order_purchase_timestamp) : i \in DOMAIN df}
MinOf(S) == CHOOSE x \in S : \A y \in S : x <= y
MaxOf(S) == CHOOSE x \in S : \A y \in S : x >= y

\* pd.date_range(min_date, max_date, freq="D"): midnight of every day
DateRange(lo, hi) == [i \in 1..(hi - lo + 1) |-> (lo + i - 1) * 24]

\* orders["order_date"] = ts.dt.floor("D")
WithOrderDate(df) ==
    [i \in DOMAIN df |->
        [order_id |-> df[i].order_id,
         order_purchase_timestamp |-> df[i].order_purchase_timestamp,
         order_date |-> FloorD(df[i].order_purchase_timestamp)]]

\* groupby("order_date")["order_id"].nunique()
GroupNunique(df) ==
    [k \in {df[i].order_date : i \in DOMAIN df} |->
        Cardinality({df[i].order_id : i \in {j \in DOMAIN df : df[j].order_date = k}})]

ReindexSparse(g, index) ==
    LET kept == SelectSeq(index, LAMBDA k : k \in DOMAIN g)
    IN  [i \in DOMAIN kept |-> [date |-> kept[i], total_purchases |-> g[kept[i]]]]

\* .reindex(all_dates, fill_value=0).reset_index()
Reindex(g, index) ==
    [i \in DOMAIN index |->
        [date |-> index[i], total_purchases |-> Get(g, index[i], 0)]]

----------------------------------------------------------------------------
(* State *)

NoFile == [written |-> FALSE, header |-> <<>>, rows |-> <<>>]
NoDay == [d |-> 0, total_purchases |-> 0, weekday |-> 0, weekend_factor |-> 100,
          allocations |-> EmptyDict, remaining |-> 0]
NoLoc == [ch |-> "", purchases |-> 0, lead_rate |-> 0, close_rate |-> 0,
          noise_leads |-> 0, noise_sessions |-> 0, cpc |-> 0, noise_spend |-> 0,
          email |-> 0, leads |-> 0, sessions |-> 0, spend |-> 0]

\* the state at entry of main(), for input file f and generator stream t
Entry(f, t) ==
    /\ file = f
    /\ rng = [tape |-> t, pos |-> 0]
    /\ pc = "check_file"
    /\ error = "none"
    /\ orders = <<>>
    /\ min_date = 0
    /\ max_date = 0
    /\ all_dates = <<>>
    /\ purchases_daily = <<>>
    /\ dayIdx = 0
    /\ chIdx = 0
    /\ day = NoDay
    /\ loc = NoLoc
    /\ funnel_rows = <<>>
    /\ spend_rows = <<>>
    /\ out_funnel = NoFile
    /\ out_spend = NoFile

Init == \E f \in Files, t \in FlatTapes : Entry(f, t)

Raise(exc) ==
    /\ pc' = "aborted"
    /\ error' = exc

----------------------------------------------------------------------------
(* Steps of main() *)

\* lines 15-18
CheckFile ==
    /\ pc = "check_file"
    /\ IF file.exists THEN pc' = "read_csv" /\ error' = error
       ELSE Raise("FileNotFoundError")
    /\ UNCHANGED <<file, rng, orders, min_date, max_date, all_dates,
                   purchases_daily, dayIdx, chIdx, day, loc, funnel_rows,
                   spend_rows, out_funnel, out_spend>>

\* line 20
ReadCsv ==
    /\ pc = "read_csv"
    /\ orders' = file.rows
    /\ pc' = "check_column"
    /\ UNCHANGED <<file, rng, error, min_date, max_date, all_dates,
                   purchases_daily, dayIdx, chIdx, day, loc, funnel_rows,
                   spend_rows, out_funnel, out_spend>>

MissingColumnDegrades == "frames"

\* lines 22-25: where the run goes when the timestamp column is absent
MissingColumnTarget == "aborted"

CheckColumn ==
    /\ pc = "check_column"
    /\ IF TsCol \in file.columns
       THEN pc' = "to_datetime" /\ error' = error
       ELSE pc' = MissingColumnTarget /\ error' = "ValueError"
    /\ UNCHANGED <<file, rng, orders, min_date, max_date, all_dates,
                   purchases_daily, dayIdx, chIdx, day, loc, funnel_rows,
                   spend_rows, out_funnel, out_spend>>

\* lines 27-30
ToDatetimeDropna ==
    /\ pc = "to_datetime"
    /\ orders' = Normalize(orders)
    /\ pc' = "date_range"
    /\ UNCHANGED <<file, rng, error, min_date, max_date, all_dates,
                   purchases_daily, dayIdx, chIdx, day, loc, funnel_rows,
                   spend_rows, out_funnel, out_spend>>

\* lines 32-34: min() and max() of no rows are NaN, which date_range rejects
MakeDateRange ==
    /\ pc = "date_range"
    /\ IF orders = <<>>
       THEN /\ Raise("ValueError")
            /\ UNCHANGED <<min_date, max_date, all_dates>>
       ELSE /\ min_date' = MinOf(Dates(orders))
            /\ max_date' = MaxOf(Dates(orders))
            /\ all_dates' = DateRange(min_date', max_date')
            /\ pc' = "aggregate"
            /\ error' = error
    /\ UNCHANGED <<file, rng, orders, purchases_daily, dayIdx, chIdx, day, loc,
                   funnel_rows, spend_rows, out_funnel, out_spend>>

\* lines 36-43: the groupby column is looked up after order_date is set
Aggregate ==
    /\ pc = "aggregate"
    /\ orders' = WithOrderDate(orders)
    /\ IF IdCol \in file.columns
       THEN /\ purchases_daily' = Reindex(GroupNunique(orders'), all_dates)
            /\ dayIdx' = 1
            /\ pc' = "day"
            /\ error' = error
       ELSE /\ Raise("KeyError")
            /\ UNCHANGED <<purchases_daily, dayIdx>>
    /\ UNCHANGED <<file, rng, min_date, max_date, all_dates, chIdx, day, loc,
                   funnel_rows, spend_rows, out_funnel, out_spend>>

\* lines 56-73: the next day of the table, its weekend factor and allocations
DayBegin ==
    /\ pc = "day"
    /\ dayIdx <= Len(purchases_daily)
    /\ LET row == purchases_daily[dayIdx]
           a == Allocate(row.total_purchases)
       IN  day' = [d |-> row.date,
                   total_purchases |-> row.total_purchases,
                   weekday |-> Weekday(row.date),
                   weekend_factor |-> WeekendFactor(Weekday(row.date)),
                   allocations |-> a.allocations,
                   remaining |-> a.remaining]
    /\ chIdx' = 1
    /\ pc' = "channel"
    /\ UNCHANGED <<file, rng, error, orders, min_date, max_date, all_dates,
                   purchases_daily, dayIdx, loc, funnel_rows, spend_rows,
                   out_funnel, out_spend>>

\* lines 75-123: one channel of the day
ChannelStep ==
    /\ pc = "channel"
    /\ LET ch == CHANNELS[chIdx]
           purchases == Get(day.allocations, ch, 0)
           dr == DrawsOf(ch, rng, loc)
           r == Synth(ch, purchases, day.weekend_factor, dr)
       IN  /\ loc' = [ch |-> ch, purchases |-> purchases,
                      lead_rate |-> dr.lead_rate, close_rate |-> dr.close_rate,
                      noise_leads |-> dr.noise_leads,
                      noise_sessions |-> dr.noise_sessions,
                      cpc |-> dr.cpc, noise_spend |-> dr.noise_spend,
                      email |-> dr.email,
                      leads |-> r.leads, sessions |-> r.sessions, spend |-> r.spend]
           /\ funnel_rows' = Append(funnel_rows,
                                    FunnelRow(day.d, ch, r.sessions, r.leads, purchases))
           /\ spend_rows' = Append(spend_rows, SpendRow(day.d, ch, r.spend))
           /\ rng' = Advance(rng, DrawCount(ch))
    /\ IF chIdx < Len(CHANNELS)
       THEN chIdx' = chIdx + 1 /\ UNCHANGED <<dayIdx, pc>>
       ELSE chIdx' = chIdx /\ dayIdx' = dayIdx + 1 /\ pc' = "day"
    /\ UNCHANGED <<file, error, orders, min_date, max_date, all_dates,
                   purchases_daily, day, out_funnel, out_spend>>

\* the loop of line 56 is exhausted
LoopEnd ==
    /\ pc = "day"
    /\ dayIdx > Len(purchases_daily)
    /\ pc' = "frames"
    /\ UNCHANGED <<file, rng, error, orders, min_date, max_date, all_dates,
                   purchases_daily, dayIdx, chIdx, day, loc, funnel_rows,
                   spend_rows, out_funnel, out_spend>>

\* lines 125-128: funnel_df.to_csv(OUT_FUNNEL, index=False)
WriteFunnel ==
    /\ pc = "frames"
    /\ out_funnel' = [written |-> TRUE,
                      header |-> <<"funnel_date", "channel", "sessions", "leads",
                                   "purchases">>,
                      rows |-> funnel_rows]
    /\ pc' = "write_spend"
    /\ UNCHANGED <<file, rng, error, orders, min_date, max_date, all_dates,
                   purchases_daily, dayIdx, chIdx, day, loc, funnel_rows,
                   spend_rows, out_spend>>

\* line 129: spend_df.to_csv(OUT_SPEND, index=False)
WriteSpend ==
    /\ pc = "write_spend"
    /\ out_spend' = [written |-> TRUE,
                     header |-> <<"spend_date", "channel", "spend">>,
                     rows |-> spend_rows]
    /\ pc' = "summary"
    /\ UNCHANGED <<file, rng, error, orders, min_date, max_date, all_dates,
                   purchases_daily, dayIdx, chIdx, day, loc, funnel_rows,
                   spend_rows, out_funnel>>

\* lines 131-135
Summary ==
    /\ pc = "summary"
    /\ pc' = "done"
    /\ UNCHANGED <<file, rng, error, orders, min_date, max_date, all_dates,
                   purchases_daily, dayIdx, chIdx, day, loc, funnel_rows,
                   spend_rows, out_funnel, out_spend>>

Next ==
    \/ CheckFile
    \/ ReadCsv
    \/ CheckColumn
    \/ ToDatetimeDropna
    \/ MakeDateRange
    \/ Aggregate
    \/ DayBegin
    \/ ChannelStep
    \/ LoopEnd
    \/ WriteFunnel
    \/ WriteSpend
    \/ Summary

Spec == Init /\ [][Next]_vars

----------------------------------------------------------------------------
(* The loop alone: main() at line 56, for a table whose days hold any      *)
(* number of purchases and for any generator stream                        *)

\* the rows of a table with totals[i] distinct orders on day start + i - 1
RECURSIVE TableOf(_, _, _)
TableOf(start, totals, i) ==
    IF i > Len(totals) THEN <<>>
    ELSE [j \in 1..totals[i] |->
             [order_id |-> i * (MaxTotal + 2) + j,
              order_purchase_timestamp |-> Stamp(start + i - 1, 13)]]
         \o TableOf(start, totals, i + 1)

\* n orders on day `focus`, one on each other end of the range, none between
TotalsOf(len, focus, n) ==
    [i \in 1..len |-> IF i = focus THEN n ELSE IF i \in {1, len} THEN 1 ELSE 0]

\* the state main() is in at line 56 after reading file f
AtLoop(f, t) ==
    /\ file = f
    /\ rng = [tape |-> t, pos |-> 0]
    /\ pc = "day"
    /\ error = "none"
    /\ orders = WithOrderDate(Normalize(f.rows))
    /\ min_date = MinOf(Dates(orders))
    /\ max_date = MaxOf(Dates(orders))
    /\ all_dates = DateRange(min_date, max_date)
    /\ purchases_daily = Reindex(GroupNunique(orders), all_dates)
    /\ dayIdx = 1
    /\ chIdx = 0
    /\ day = NoDay
    /\ loc = NoLoc
    /\ funnel_rows = <<>>
    /\ spend_rows = <<>>
    /\ out_funnel = NoFile
    /\ out_spend = NoFile

InitDay ==
    \E start \in Days, len \in 1..MaxSpan, t \in Tapes :
      \E focus \in 1..len, n \in 0..MaxTotal :
        /\ start + len - 1 \in Days
        /\ focus \in {1, len} => n >= 1
        /\ AtLoop([exists |-> TRUE, columns |-> Cols,
                   rows |-> TableOf(start, TotalsOf(len, focus, n), 1)], t)

NextDay ==
    \/ DayBegin
    \/ ChannelStep
    \/ LoopEnd
    \/ WriteFunnel
    \/ WriteSpend
    \/ Summary

SpecDay == InitDay /\ [][NextDay]_vars

----------------------------------------------------------------------------
(* Properties *)

\* days whose five rows have all been emitted
DoneDays == 1..(dayIdx - 1)
RowsOfDay(i) == (5 * (i - 1) + 1)..(5 * i)

RECURSIVE SumPurchases(_, _)
SumPurchases(i, k) ==
    IF k = 0 THEN 0
    ELSE funnel_rows[5 * (i - 1) + k].purchases + SumPurchases(i, k - 1)

\* the draws and the reference values (weekend_factor 1.0) of the row that
\* was emitted last; Fresh: the locals of both loops belong to that row
Fresh == loc.ch # "" /\ ~(pc = "channel" /\ chIdx = 1)
LastFunnel == funnel_rows[Len(funnel_rows)]
LastSpend == spend_rows[Len(spend_rows)]
Reference == Synth(loc.ch, loc.purchases, 100, loc)
IsWeekend == day.weekday \in {5, 6}

\* C1: for every date, the purchases of its five channels sum to the date's
\* total_purchases, unless the clamp replaced a negative remainder by 0
\* (then Organic is 0 and the other four exceed the total).
C1_PurchasesSumToTotal ==
    \A i \in DoneDays :
        LET s == SumPurchases(i, 5)
            t == purchases_daily[i].total_purchases
        IN  \/ s = t
            \/ funnel_rows[5 * i].purchases = 0 /\ s > t

C1_Witness ==
    \E i \in DoneDays :
        /\ purchases_daily[i].total_purchases >= 10
        /\ SumPurchases(i, 5) = purchases_daily[i].total_purchases
        /\ funnel_rows[5 * i].purchases > 0

\* C8: the remainder left for the last channel is never negative, so Organic
\* gets exactly the remainder and the five allocations sum to the total.
C8_RemainderNeverNegative ==
    chIdx >= 1 =>
        /\ day.remaining >= 0
        /\ day.allocations["Organic"] = day.remaining
        /\ day.allocations["Paid Search"] + day.allocations["Paid Social"]
             + day.allocations["Email"] + day.allocations["Affiliate"]
             + day.allocations["Organic"] = day.total_purchases

C8_Witness ==
    /\ pc = "channel"
    /\ day.total_purchases = 10
    /\ day.allocations["Email"] = 2
    /\ day.remaining = 2

\* C2: after a successful run each table holds every (date, channel) pair of
\* the date range exactly once, (max_date - min_date + 1) * 5 rows, and the
\* k-th rows of the two tables carry the same date and channel.
C2_CrossProduct ==
    pc = "done" =>
        LET n == (max_date - min_date + 1) * 5 IN
        /\ Len(funnel_rows) = n
        /\ Len(spend_rows) = n
        /\ \A d \in min_date..max_date, c \in 1..Len(CHANNELS) :
             /\ Cardinality({k \in DOMAIN funnel_rows :
                   /\ funnel_rows[k].funnel_date = IsoFormat(d)
                   /\ funnel_rows[k].channel = CHANNELS[c]}) = 1
             /\ Cardinality({k \in DOMAIN spend_rows :
                   /\ spend_rows[k].spend_date = IsoFormat(d)
                   /\ spend_rows[k].channel = CHANNELS[c]}) = 1
        /\ \A k \in DOMAIN funnel_rows \cap DOMAIN spend_rows :
             /\ funnel_rows[k].funnel_date = spend_rows[k].spend_date
             /\ funnel_rows[k].channel = spend_rows[k].channel
        /\ out_funnel.rows = funnel_rows
        /\ out_spend.rows = spend_rows

C2_Witness ==
    /\ pc = "done"
    /\ max_date - min_date + 1 = 3
    /\ \E i \in DOMAIN purchases_daily : purchases_daily[i].total_purchases = 0
    /\ Len(out_funnel.rows) = 15

\* C3: when the input file is missing or lacks the timestamp column the run
\* aborts at the check and writes neither file; no aborted run has written,
\* and nothing is written unless both checks passed.
C3_ChecksBeforeWrites ==
    /\ pc = "aborted" => ~out_funnel.written /\ ~out_spend.written
    /\ (out_funnel.written \/ out_spend.written) =>
           file.exists /\ TsCol \in file.columns
    /\ (~file.exists \/ TsCol \notin file.columns) =>
           pc \in {"check_file", "read_csv", "check_column", "aborted"}

C3_Witness ==
    /\ pc = "aborted"
    /\ error = "ValueError"
    /\ file.exists
    /\ TsCol \notin file.columns
    /\ Len(file.rows) > 0
    /\ ~out_funnel.written
    /\ ~out_spend.written

\* C5: whatever subset of the rows of a table with the required columns has
\* an unparseable timestamp (all of them, or no rows at all, included), the
\* run does not fail.
C5_BadRowsNeverAbort ==
    (file.exists /\ Cols \subseteq file.columns) => pc # "aborted"

\* C4: on a weekend day the spend of a paid channel, before rounding, is
\* 0.85 times the spend the same draws give with factor 1.0.
C4_SpendDampenedOnce ==
    (Fresh /\ IsWeekend /\ loc.ch \in PaidChannels) =>
        loc.spend * 100 = 85 * Reference.spend

\* C6: on a weekend day sessions and leads are the values of factor 1.0 for
\* the same draws, multiplied by 0.85 and truncated, hence not larger; the
\* purchases are those of factor 1.0.
C6_WeekendDampens ==
    (Fresh /\ IsWeekend) =>
        /\ LastFunnel.sessions <= Reference.sessions
        /\ LastFunnel.leads <= Reference.leads
        /\ LastFunnel.sessions = TruncDiv(Reference.sessions * 85, 100)
        /\ LastFunnel.leads = TruncDiv(Reference.leads * 85, 100)
        /\ LastFunnel.purchases = Reference.purchases
        /\ LastFunnel.purchases = day.allocations[loc.ch]

C6_Witness ==
    /\ Fresh
    /\ IsWeekend
    /\ loc.purchases > 0
    /\ LastFunnel.sessions < Reference.sessions
    /\ LastFunnel.leads < Reference.leads

\* C7: every emitted row is non-negative in sessions, leads, purchases and
\* spend.
C7_RowsNonNegative ==
    /\ \A k \in DOMAIN funnel_rows :
         /\ funnel_rows[k].sessions >= 0
         /\ funnel_rows[k].leads >= 0
         /\ funnel_rows[k].purchases >= 0
    /\ \A k \in DOMAIN spend_rows : spend_rows[k].spend >= 0

C7_Witness ==
    /\ pc = "done"
    /\ \E k \in DOMAIN spend_rows :
         /\ spend_rows[k].channel = "Paid Search"
         /\ spend_rows[k].spend > 0
         /\ funnel_rows[k].sessions > 0

\* C9: every funnel row has sessions >= leads >= purchases.
C9_FunnelMonotone ==
    \A k \in DOMAIN funnel_rows :
        /\ funnel_rows[k].sessions >= funnel_rows[k].leads
        /\ funnel_rows[k].leads >= funnel_rows[k].purchases

C9_Witness ==
    /\ Fresh
    /\ IsWeekend
    /\ loc.close_rate = 180
    /\ loc.noise_leads = 950
    /\ loc.lead_rate = 80
    /\ loc.noise_sessions = 950
    /\ LastFunnel.purchases >= 3
    /\ LastFunnel.leads > LastFunnel.purchases
    /\ LastFunnel.sessions > LastFunnel.leads

\* C10: a row whose allocated purchases is 0 has leads = sessions = 0, and
\* spend 0 unless its channel is Email, whose spend is not 0.
C10_ZeroPurchasesRow ==
    \A k \in DOMAIN funnel_rows :
        funnel_rows[k].purchases = 0 =>
            /\ funnel_rows[k].leads = 0
            /\ funnel_rows[k].sessions = 0
            /\ funnel_rows[k].channel # "Email" => spend_rows[k].spend = 0
            /\ funnel_rows[k].channel = "Email" => spend_rows[k].spend > 0

C10_Witness ==
    \E i \in DoneDays :
        /\ purchases_daily[i].total_purchases = 0
        /\ \A k \in RowsOfDay(i) : funnel_rows[k].purchases = 0
        /\ \E k \in RowsOfDay(i) :
             funnel_rows[k].channel = "Email" /\ spend_rows[k].spend > 0

====
